---------------------------- MODULE Spec2Model ----------------------------
(***************************************************************************)
(* The Game Boy LCD timing core of src/src/gb/video.c as a state machine.  *)
(*                                                                         *)
(* The video core (struct GBVideo) is the record `video`; the memory-      *)
(* mapped registers it reads and writes are the record `io`; `gb` holds    *)
(* the host facts it consults (model, double speed).  `out` records the    *)
(* callbacks the last operation made (renderer, thread, sync, the return   *)
(* value), and `sync`, `lastOp`, `clock` observe the run.                   *)
(*                                                                         *)
(* Every operation of video.c is an operator from the state before the     *)
(* call to the state after it, so that the same code can be run on two     *)
(* cores side by side (`twin`).                                            *)
(*                                                                         *)
(* Left out, as they touch no field the model keeps: the lowering of       *)
(* cpu->nextEvent in GBVideoWriteLCDC, the HDMA poke of case 3, the MBC7   *)
(* rotation sample, GBUpdateIRQs, the stream's postVideoFrame, and VRAM    *)
(* with its bank.                                                          *)
(***************************************************************************)
EXTENDS Integers, Sequences, FiniteSets, TLC

VARIABLES video, io, gb, out, sync, lastOp, clock, saved, twin

vars == <<video, io, gb, out, sync, lastOp, clock, saved, twin>>

---------------------------------------------------------------------------
(* limits.h *)
INT_MAX == 2147483647
INT_MIN == -INT_MAX - 1

(* Timing constants of gb/video.h, with the values the specification gives *)
GB_VIDEO_HORIZONTAL_PIXELS == 160
GB_VIDEO_VERTICAL_PIXELS == 144
GB_VIDEO_VERTICAL_TOTAL_PIXELS == 153
GB_VIDEO_MODE_2_LENGTH == 80
GB_VIDEO_MODE_3_LENGTH_BASE == 172
GB_VIDEO_MODE_0_LENGTH_BASE == 204
GB_VIDEO_HORIZONTAL_LENGTH == 456
GB_VIDEO_TOTAL_LENGTH == 70224

(* enum LR35902ExecutionState: the fetch state *)
LR35902_CORE_FETCH == 3

(* enum GBModel *)
GB_MODEL_DMG == 0
GB_MODEL_CGB == 1

(* Interrupt bits of IF *)
GB_IRQ_VBLANK == 0
GB_IRQ_LCDSTAT == 1

(* Register addresses of gb/io.h, as offsets into the IO page *)
REG_BGP == 71
REG_OBP0 == 72
REG_OBP1 == 73
REG_BCPS == 104
REG_BCPD == 105
REG_OCPS == 106
REG_OCPD == 107

\* uint16_t palette[64]
PaletteEntries == 64

(* Number of OAM entries and of sprites per line (the literals of _cleanOAM) *)
OamEntries == 40
MaxObjPerLine == 10

---------------------------------------------------------------------------
(* Bounds of the model *)

\* frame ticks after which the driver stops advancing
MaxFrames == 3
\* largest frameskip setting tried
MaxSkip == 2
\* consecutive frame ticks that find the CPU outside its fetch state
MaxMisalign == 1
\* cycles a driver may accumulate while nothing is scheduled
MaxIdle == 2
\* cycles by which a driver may look in early, per deadline
MaxPartial == 1
\* times the program switches the LCD off
MaxOff == 1
\* lines the driver runs once the LCD has been switched off and on again,
\* or the state has been saved
MaxReLines == 2
\* frame ticks after which the driver stops, when registers are written
MaxRunFrames == 2
\* the lines on which the state is saved
MaxSaveLines == 2
\* the times one saved state is loaded
MaxLoads == 1
\* the strides of the Y bytes down the OAM
MaxStride == 3
\* the times one OAM is scanned
MaxScans == 2
\* palette writes in a run
MaxPalWrites == 3
\* sprites placed on the first lines, beyond the ten a line can show
MaxExtraObj == 1
\* times the LCD is switched off and on in a run that draws
MaxToggles == 1

---------------------------------------------------------------------------
(* Bit fields *)

BitIsSet(v, n) == (v \div (2 ^ n)) % 2 = 1

BitSet(v, n) == IF BitIsSet(v, n) THEN v ELSE v + 2 ^ n

BitPut(v, n, b) == IF b THEN BitSet(v, n) ELSE IF BitIsSet(v, n) THEN v - 2 ^ n ELSE v

GBRegisterLCDCIsEnable(lcdc) == BitIsSet(lcdc, 7)
GBRegisterLCDCIsObjSize(lcdc) == BitIsSet(lcdc, 2)

GBRegisterSTATGetMode(stat) == stat % 4
GBRegisterSTATSetMode(stat, mode) == (stat - (stat % 4)) + (mode % 4)
GBRegisterSTATIsLYC(stat) == BitIsSet(stat, 2)
GBRegisterSTATSetLYC(stat, b) == BitPut(stat, 2, b)
GBRegisterSTATIsHblankIRQ(stat) == BitIsSet(stat, 3)
GBRegisterSTATIsVblankIRQ(stat) == BitIsSet(stat, 4)
GBRegisterSTATIsOAMIRQ(stat) == BitIsSet(stat, 5)
GBRegisterSTATIsLYCIRQ(stat) == BitIsSet(stat, 6)

\* x >> n on a two's complement int (the arithmetic shift every supported
\* compiler emits): floor(x / 2^n)
ShiftRight(x, n) == x \div (2 ^ n)

Min(a, b) == IF a < b THEN a ELSE b

---------------------------------------------------------------------------
(* Callbacks made by one operation *)

NoOut ==
    [ frameEnded |-> FALSE,      \* mCoreThreadFrameEnded
      gbFrameEnded |-> FALSE,    \* GBFrameEnded
      frameStarted |-> FALSE,    \* mCoreThreadFrameStarted
      postFrame |-> FALSE,       \* mCoreSyncPostFrame
      finishFrame |-> FALSE,     \* renderer->finishFrame
      finishScanline |-> -1,     \* renderer->finishScanline(y), -1: not called
      drawRange |-> <<>>,        \* renderer->drawRange(oldX, x, y, objMax)
      drawDue |-> FALSE,         \* GBVideoProcessDots reached its draw
      scanDue |-> FALSE,         \* case 0 reached its finishScanline
      irq |-> {},                \* bits or-ed into IF
      fired |-> FALSE,           \* nextEvent had run out
      deferred |-> FALSE,        \* the frame tick was due outside a fetch
      executionState |-> -1,     \* cpu->executionState as the frame tick read it
      modeStep |-> -1,           \* the mode whose case ran, -1: none
      reload |-> -1,             \* the nextMode that case stored
      cleanY |-> -1,             \* _cleanOAM(y), -1: not called
      writePalette |-> <<>>,     \* renderer->writePalette(index, value), in order
      wrote |-> <<>>,            \* GBVideoWritePalette(address, value)
      ret |-> 0 ]                \* the value returned

RaiseIRQ(s, n) ==
    [s EXCEPT !.io.REG_IF = BitSet(@, n), !.out.irq = @ \cup {n}]

---------------------------------------------------------------------------
(* _cleanOAM.  video->oam.obj[i] is oam[i + 1], video->objThisLine[o] is  *)
(* objThisLine[o + 1].                                                     *)

\* a mutation of OffLine: the row below the sprite counts as covered
OffLineLoose(y, oy, spriteHeight) == y < oy - 16 \/ y > oy - 16 + spriteHeight

\* the test that skips an entry
OffLine(y, oy, spriteHeight) == y < oy - 16 \/ y >= oy - 16 + spriteHeight

RECURSIVE CleanLoop(_, _, _, _, _, _)
CleanLoop(oam, y, spriteHeight, i, o, objs) ==
    IF i >= OamEntries THEN [objThisLine |-> objs, objMax |-> o]
    ELSE LET oy == oam[i + 1].y IN
         IF OffLine(y, oy, spriteHeight)
         THEN CleanLoop(oam, y, spriteHeight, i + 1, o, objs)
         ELSE LET objs2 == [objs EXCEPT ![o + 1] = oam[i + 1]] IN
              IF o + 1 = MaxObjPerLine
              THEN [objThisLine |-> objs2, objMax |-> o + 1]
              ELSE CleanLoop(oam, y, spriteHeight, i + 1, o + 1, objs2)

SpriteHeight(lcdc) == IF GBRegisterLCDCIsObjSize(lcdc) THEN 16 ELSE 8

cleanOAM(v, lcdc, y) ==
    LET r == CleanLoop(v.oam, y, SpriteHeight(lcdc), 0, 0, v.objThisLine)
    IN [v EXCEPT !.objThisLine = r.objThisLine, !.objMax = r.objMax]

---------------------------------------------------------------------------
(* GBVideoProcessDots *)

\* a mutation of Drawing: the frame after a posted one is skipped as well
DrawingLate(counter) == counter < 0

\* the renderer is called unless the frame is skipped
Drawing(counter) == counter <= 0

GBVideoProcessDots(s, cpuCycles) ==
    LET v == s.v IN
    IF v.mode # 3 \/ v.dotCounter < 0 THEN s
    ELSE LET oldX == v.x
             raw == v.dotCounter + v.eventDiff + ShiftRight(cpuCycles, gb.doubleSpeed)
             newX == IF raw > GB_VIDEO_HORIZONTAL_PIXELS THEN GB_VIDEO_HORIZONTAL_PIXELS
                     ELSE IF raw < 0 THEN oldX
                     ELSE raw
             dc == IF newX = GB_VIDEO_HORIZONTAL_PIXELS THEN INT_MIN ELSE v.dotCounter
         IN [s EXCEPT !.v.x = newX,
                      !.v.dotCounter = dc,
                      !.out.drawDue = TRUE,
                      !.out.drawRange =
                          IF Drawing(v.frameskipCounter)
                          THEN <<oldX, newX, v.ly, v.objMax>>
                          ELSE @]

---------------------------------------------------------------------------
(* GBVideoProcessEvents: the cases of the mode switch *)

Mode2Length(scx) == GB_VIDEO_MODE_2_LENGTH + (scx % 8)

\* a mutation of Mode3Length: the scroll is not taken off
Mode3LengthFlat(objMax, scx) == GB_VIDEO_MODE_3_LENGTH_BASE + objMax * 11

Mode3Length(objMax, scx) == GB_VIDEO_MODE_3_LENGTH_BASE + objMax * 11 - (scx % 8)

\* a mutation of Mode0Length: HBlank gives back one cycle less per sprite
Mode0LengthShort(objMax) == GB_VIDEO_MODE_0_LENGTH_BASE - objMax * 10

Mode0Length(objMax) == GB_VIDEO_MODE_0_LENGTH_BASE - objMax * 11

\* a mutation of Coincides: the comparison is made with the line before
CoincidesLate(lyc, ly) == lyc = ly - 1

\* the LYC comparison
Coincides(lyc, ly) == lyc = ly

\* a mutation of IsVisibleLine: line 144 is drawn as well
IsVisibleLineWide(ly) == ly <= GB_VIDEO_VERTICAL_PIXELS

\* case 0: the end of HBlank
IsVisibleLine(ly) == ly < GB_VIDEO_VERTICAL_PIXELS

\* a mutation of OamIrqOnLine: the OAM source alone
OamIrqPlain(stat) == GBRegisterSTATIsOAMIRQ(stat)

\* The OAM source at the end of a visible line: not with the HBlank source
OamIrqOnLine(stat) ==
    ~GBRegisterSTATIsHblankIRQ(stat) /\ GBRegisterSTATIsOAMIRQ(stat)

\* a mutation of VblankStatIrq: the VBlank source alone
VblankStatIrqOnly(stat) == GBRegisterSTATIsVblankIRQ(stat)

\* The sources that raise LCDSTAT at the start of VBlank
VblankStatIrq(stat) ==
    GBRegisterSTATIsVblankIRQ(stat) \/ GBRegisterSTATIsOAMIRQ(stat)

Case0(s, lyc) ==
    LET v == s.v
        ly == v.ly + 1
        stat == GBRegisterSTATSetLYC(v.stat, Coincides(lyc, ly))
        s1 == [s EXCEPT !.out.scanDue = TRUE,
                        !.out.finishScanline = IF Drawing(v.frameskipCounter) THEN v.ly ELSE @,
                        !.v.ly = ly,
                        !.io.REG_LY = ly,
                        !.v.stat = stat]
        s2 == IF IsVisibleLine(ly)
              THEN LET a == [s1 EXCEPT !.v.nextMode = Mode2Length(s.io.REG_SCX),
                                       !.v.mode = 2]
                   IN IF OamIrqOnLine(stat)
                      THEN RaiseIRQ(a, GB_IRQ_LCDSTAT)
                      ELSE a
              ELSE LET a == [s1 EXCEPT !.v.nextMode = GB_VIDEO_HORIZONTAL_LENGTH,
                                       !.v.mode = 1,
                                       !.v.nextFrame = 0,
                                       !.out.frameEnded = TRUE]
                       b == IF VblankStatIrq(stat)
                            THEN RaiseIRQ(a, GB_IRQ_LCDSTAT)
                            ELSE a
                   IN RaiseIRQ(b, GB_IRQ_VBLANK)
    IN IF GBRegisterSTATIsLYCIRQ(stat) /\ Coincides(lyc, ly)
       THEN RaiseIRQ(s2, GB_IRQ_LCDSTAT)
       ELSE s2

\* a mutation of WrapLine: one more line before the wrap
WrapLineLate == GB_VIDEO_VERTICAL_TOTAL_PIXELS + 2

\* case 1: a line of VBlank
WrapLine == GB_VIDEO_VERTICAL_TOTAL_PIXELS + 1

Case1(s, lyc) ==
    LET v == s.v
        ly == v.ly + 1
    IN IF ly = WrapLine
       THEN LET a == [s EXCEPT !.v.ly = 0,
                               !.io.REG_LY = 0,
                               !.v.nextMode = Mode2Length(s.io.REG_SCX),
                               !.v.mode = 2,
                               !.out.finishFrame = TRUE]
            IN IF GBRegisterSTATIsOAMIRQ(v.stat)
               THEN RaiseIRQ(a, GB_IRQ_LCDSTAT)
               ELSE a
       ELSE LET ioLY == IF ly = GB_VIDEO_VERTICAL_TOTAL_PIXELS THEN 0 ELSE ly
                next == IF ly = GB_VIDEO_VERTICAL_TOTAL_PIXELS
                        THEN GB_VIDEO_HORIZONTAL_LENGTH - 8
                        ELSE IF ly = GB_VIDEO_VERTICAL_TOTAL_PIXELS - 1
                        THEN 8
                        ELSE GB_VIDEO_HORIZONTAL_LENGTH
                stat == GBRegisterSTATSetLYC(v.stat, Coincides(lyc, ioLY))
                a == [s EXCEPT !.v.ly = ly,
                               !.io.REG_LY = ioLY,
                               !.v.nextMode = next,
                               !.v.stat = stat]
            IN IF GBRegisterSTATIsLYCIRQ(stat) /\ Coincides(lyc, ioLY)
               THEN RaiseIRQ(a, GB_IRQ_LCDSTAT)
               ELSE a

\* case 2: the end of the OAM scan
Case2(s) ==
    LET c == cleanOAM(s.v, s.io.REG_LCDC, s.v.ly)
    IN [s EXCEPT !.out.cleanY = s.v.ly,
                 !.v = [c EXCEPT
                        !.dotCounter = 0,
                        !.nextEvent = GB_VIDEO_HORIZONTAL_LENGTH,
                        !.x = 0,
                        !.nextMode = Mode3Length(c.objMax, s.io.REG_SCX),
                        !.mode = 3]]

\* case 3: the end of the drawing mode
Case3(s) ==
    LET a == [s EXCEPT !.v.nextMode = Mode0Length(s.v.objMax),
                       !.v.mode = 0]
    IN IF GBRegisterSTATIsHblankIRQ(s.v.stat)
       THEN RaiseIRQ(a, GB_IRQ_LCDSTAT)
       ELSE a

StoreMode(s) ==
    LET stat == GBRegisterSTATSetMode(s.v.stat, s.v.mode)
    IN [s EXCEPT !.v.stat = stat, !.io.REG_STAT = stat,
                 !.out.reload = s.v.nextMode]

ModeCase(s, lyc) ==
    CASE s.v.mode = 0 -> Case0(s, lyc)
      [] s.v.mode = 1 -> Case1(s, lyc)
      [] s.v.mode = 2 -> Case2(s)
      [] OTHER -> Case3(s)

ModeStep(s) ==
    StoreMode(ModeCase([s EXCEPT !.out.modeStep = s.v.mode], s.io.REG_LYC))

\* a mutation of PostDue: a frame is posted one tick early
PostDueEarly(counter) == counter <= 0

\* the frame tick
PostDue(counter) == counter < 0

\* a mutation of InFetch: any state from the fetch on
InFetchOrLater(executionState) == executionState >= LR35902_CORE_FETCH

\* The CPU is between instructions
InFetch(executionState) == executionState = LR35902_CORE_FETCH

\* a mutation of DeferLength: the cycles gone, not the cycles left
DeferLengthGone(executionState) == (executionState + 1) % 4

\* The cycles to the next fetch
DeferLength(executionState) == 4 - ((executionState + 1) % 4)

FrameTick(s0, executionState) ==
    LET s == [s0 EXCEPT !.out.executionState = executionState]
        v == s.v IN
    IF InFetch(executionState)
    THEN LET counter == v.frameskipCounter - 1
             post == PostDue(counter)
         IN [s EXCEPT !.out.gbFrameEnded = TRUE,
                      !.out.frameStarted = TRUE,
                      !.out.postFrame = post,
                      !.v.nextFrame = GB_VIDEO_TOTAL_LENGTH,
                      !.v.nextEvent = GB_VIDEO_TOTAL_LENGTH,
                      !.v.frameskipCounter = IF post THEN v.frameskip ELSE counter,
                      !.v.frameCounter = @ + 1]
    ELSE LET nf == DeferLength(executionState)
         IN [s EXCEPT !.out.deferred = TRUE,
                      !.v.nextFrame = nf,
                      !.v.nextEvent = IF nf < @ THEN nf ELSE @]

\* the closing lines of the fired branch
Reschedule(s) ==
    LET next == IF s.v.nextMode < s.v.nextEvent THEN s.v.nextMode ELSE s.v.nextEvent
    IN [s EXCEPT !.v.nextEvent = next, !.v.eventDiff = 0, !.out.ret = next]

FrameStage(s, executionState) ==
    Reschedule(IF s.v.nextFrame <= 0 THEN FrameTick(s, executionState) ELSE s)

ModeStage(s, executionState) ==
    FrameStage(IF s.v.nextMode <= 0 THEN ModeStep(s) ELSE s, executionState)

Fired(v1, r, executionState, cpuCycles) ==
    ModeStage(
        GBVideoProcessDots(
            [v |-> [v1 EXCEPT
                      !.nextMode = IF @ # INT_MAX THEN @ - v1.eventDiff ELSE @,
                      !.nextFrame = IF @ # INT_MAX THEN @ - v1.eventDiff ELSE @,
                      !.nextEvent = INT_MAX],
             io |-> r,
             out |-> [NoOut EXCEPT !.fired = TRUE]],
            cpuCycles),
        executionState)

Accumulated(v1, r, executionState, cpuCycles) ==
    IF v1.nextEvent > 0
    THEN [v |-> v1, io |-> r, out |-> [NoOut EXCEPT !.ret = v1.nextEvent]]
    ELSE Fired(v1, r, executionState, cpuCycles)

GBVideoProcessEvents(v, r, cycles, executionState, cpuCycles) ==
    Accumulated([v EXCEPT !.eventDiff = @ + cycles,
                          !.nextEvent = IF @ # INT_MAX THEN @ - cycles ELSE @],
                r, executionState, cpuCycles)

---------------------------------------------------------------------------
(* Register writers *)

\* the off -> on edge
LcdEnable(v, r, cpuCycles) ==
    LET stat == GBRegisterSTATSetLYC(GBRegisterSTATSetMode(v.stat, 2), Coincides(r.REG_LYC, 0))
        s1 == [v |-> [v EXCEPT !.mode = 2,
                               !.nextMode = GB_VIDEO_MODE_2_LENGTH - 5,
                               !.nextEvent = GB_VIDEO_MODE_2_LENGTH - 5,
                               !.eventDiff = ShiftRight(-cpuCycles, gb.doubleSpeed),
                               !.ly = 0,
                               !.stat = stat],
               io |-> [r EXCEPT !.REG_LY = 0, !.REG_STAT = stat],
               out |-> NoOut]
    IN IF GBRegisterSTATIsLYCIRQ(stat) /\ Coincides(r.REG_LYC, 0)
       THEN RaiseIRQ(s1, GB_IRQ_LCDSTAT)
       ELSE s1

\* a mutation of LcdDisable: the mode timer is left running
LcdDisableRunning(v, r) ==
    LET stat == GBRegisterSTATSetMode(v.stat, 0)
    IN [v |-> [v EXCEPT !.mode = 0,
                        !.nextEvent = v.nextFrame,
                        !.stat = stat,
                        !.ly = 0],
        io |-> [r EXCEPT !.REG_STAT = stat, !.REG_LY = 0],
        out |-> NoOut]

\* the on -> off edge
LcdDisable(v, r) ==
    LET stat == GBRegisterSTATSetMode(v.stat, 0)
    IN [v |-> [v EXCEPT !.mode = 0,
                        !.nextMode = INT_MAX,
                        !.nextEvent = v.nextFrame,
                        !.stat = stat,
                        !.ly = 0],
        io |-> [r EXCEPT !.REG_STAT = stat, !.REG_LY = 0],
        out |-> NoOut]

GBVideoWriteLCDC(v, r, value, cpuCycles) ==
    IF ~GBRegisterLCDCIsEnable(r.REG_LCDC) /\ GBRegisterLCDCIsEnable(value)
    THEN LcdEnable(v, r, cpuCycles)
    ELSE IF GBRegisterLCDCIsEnable(r.REG_LCDC) /\ ~GBRegisterLCDCIsEnable(value)
    THEN LcdDisable(v, r)
    ELSE [v |-> v, io |-> r, out |-> NoOut]

GBVideoWriteSTAT(v, r, value) ==
    LET v1 == [v EXCEPT !.stat = (v.stat % 8) + (((value \div 8) % 16) * 8)]
        s1 == [v |-> v1, io |-> r, out |-> NoOut]
    IN IF gb.model = GB_MODEL_DMG /\ v.mode = 1
       THEN RaiseIRQ(s1, GB_IRQ_LCDSTAT)
       ELSE s1

GBVideoWriteLYC(v, r, value) ==
    IF v.mode = 2
    THEN LET stat == GBRegisterSTATSetLYC(v.stat, Coincides(value, v.ly))
             s1 == [v |-> [v EXCEPT !.stat = stat], io |-> r, out |-> NoOut]
         IN IF GBRegisterSTATIsLYCIRQ(stat) /\ Coincides(value, v.ly)
            THEN RaiseIRQ(s1, GB_IRQ_LCDSTAT)
            ELSE s1
    ELSE [v |-> v, io |-> r, out |-> NoOut]

---------------------------------------------------------------------------
(* GBVideoWritePalette.  palette[i] of the code is palette[i + 1] here.    *)

dmgPalette == <<32767, 22197, 10570, 0>>

\* The four shades the byte selects, stored from palette[base] on, each
\* reported to the renderer
DmgShades(s, base, value) ==
    LET shade(k) == dmgPalette[((value \div (4 ^ k)) % 4) + 1]
    IN [s EXCEPT !.v.palette = [i \in 1 .. PaletteEntries |->
                                  IF i - 1 \in base .. base + 3
                                  THEN shade(i - 1 - base) ELSE @[i]],
                 !.out.writePalette =
                     [k \in 1 .. 4 |-> <<base + k - 1, shade(k - 1)>>]]

\* The half of a colour a data write replaces: the high byte at an odd
\* cursor, the low byte at an even one
ReplaceByteLow(word, index, value) == (word \div 256) * 256 + value

ReplaceByte(word, index, value) ==
    IF index % 2 = 1
    THEN (word % 256) + value * 256
    ELSE (word \div 256) * 256 + value

\* The cursor after a data write
NextIndexUnmasked(index, increment) == IF increment THEN index + 1 ELSE index

NextIndex(index, increment) ==
    IF increment THEN (index + 1) % 64 ELSE index

\* The byte of the colour under the cursor, as the data register shows it
DataByte(word, index) == (word \div (256 ^ (index % 2))) % 256

\* One data write through a cursor into palette[base ..]
CgbData(s, base, index, increment, value) ==
    LET slot == base + (index \div 2) + 1
        word == ReplaceByte(s.v.palette[slot], index, value)
        palette == [s.v.palette EXCEPT ![slot] = word]
        next == NextIndex(index, increment)
    IN [palette |-> palette,
        call |-> <<slot - 1, word>>,
        index |-> next,
        select |-> IF increment THEN next ELSE -1,
        data |-> DataByte(palette[base + (next \div 2) + 1], next)]

GBVideoWritePalette(v, r, address, value) ==
    LET s == [v |-> v, io |-> r,
              out |-> [NoOut EXCEPT !.wrote = <<address, value>>]]
    IN IF gb.model < GB_MODEL_CGB
       THEN CASE address = REG_BGP -> DmgShades(s, 0, value)
              [] address = REG_OBP0 -> DmgShades(s, 8 * 4, value)
              [] address = REG_OBP1 -> DmgShades(s, 9 * 4, value)
              [] OTHER -> s
       ELSE CASE address = REG_BCPD ->
                   LET w == CgbData(s, 0, v.bcpIndex, v.bcpIncrement, value)
                   IN [s EXCEPT !.v.palette = w.palette,
                                !.v.bcpIndex = w.index,
                                !.out.writePalette = <<w.call>>,
                                !.io.REG_BCPS =
                                    IF w.select < 0 THEN @
                                    ELSE ((@ \div 128) % 2) * 128 + w.select,
                                !.io.REG_BCPD = w.data]
              [] address = REG_OCPD ->
                   LET w == CgbData(s, 8 * 4, v.ocpIndex, v.ocpIncrement, value)
                   IN [s EXCEPT !.v.palette = w.palette,
                                !.v.ocpIndex = w.index,
                                !.out.writePalette = <<w.call>>,
                                !.io.REG_OCPS =
                                    IF w.select < 0 THEN @
                                    ELSE ((@ \div 128) % 2) * 128 + w.select,
                                !.io.REG_OCPD = w.data]
              [] OTHER -> s

---------------------------------------------------------------------------
(* GBVideoSerialize and GBVideoDeserialize.  VRAM and the VRAM bank are    *)
(* carried by the state but are not part of this model.                    *)

\* STORE_16LE and LOAD_16LE of an int
Low16(n) == n % 65536

GBVideoSerialize(v) ==
    [ x |-> Low16(v.x),
      ly |-> Low16(v.ly),
      nextEvent |-> v.nextEvent,
      eventDiff |-> v.eventDiff,
      nextMode |-> v.nextMode,
      dotCounter |-> v.dotCounter,
      frameCounter |-> v.frameCounter,
      mode |-> v.mode % 4,
      bcpIncrement |-> v.bcpIncrement,
      ocpIncrement |-> v.ocpIncrement,
      bcpIndex |-> Low16(v.bcpIndex),
      ocpIndex |-> Low16(v.ocpIndex),
      palette |-> [k \in 1 .. PaletteEntries |-> Low16(v.palette[k])],
      oam |-> v.oam ]

GBVideoDeserialize(v, r, state) ==
    cleanOAM([v EXCEPT !.x = state.x,
                       !.ly = state.ly,
                       !.nextEvent = state.nextEvent,
                       !.eventDiff = state.eventDiff,
                       !.nextMode = state.nextMode,
                       !.dotCounter = state.dotCounter,
                       !.frameCounter = state.frameCounter,
                       !.mode = state.mode,
                       !.bcpIncrement = state.bcpIncrement,
                       !.ocpIncrement = state.ocpIncrement,
                       !.bcpIndex = state.bcpIndex % 64,
                       !.ocpIndex = state.ocpIndex % 64,
                       !.palette = state.palette,
                       !.oam = state.oam],
             r.REG_LCDC, state.ly)

\* The writePalette calls of GBVideoDeserialize: every entry, in order
PaletteCallbacks(v) == [k \in 1 .. PaletteEntries |-> <<k - 1, v.palette[k]>>]

---------------------------------------------------------------------------
(* OAM contents tried *)

OamPattern(a, b, m) ==
    [k \in 1 .. OamEntries |->
        [y |-> (a * (k - 1) + b) % m, x |-> 7 + k, tile |-> k - 1, attr |-> 0]]

NoObj == [y |-> 0, x |-> 0, tile |-> 0, attr |-> 0]

\* the OAM zeroed by GBVideoReset: no sprite on any line
OamEmpty == [k \in 1 .. OamEntries |-> NoObj]
\* all forty sprites on lines 0..7
OamCrowded == OamPattern(0, 16, 256)
\* sprite i on lines 4i..4i+7: two sprites on most lines
OamStaggered == OamPattern(4, 16, 256)

---------------------------------------------------------------------------
(* GBVideoInit and GBVideoReset: the state after construction *)

\* frameskip is GBVideoInit's; objMax and objThisLine are set by neither,
\* and are written by _cleanOAM before anything reads them; the palette
\* cursors are set by neither, and are written by the IO layer's BCPS and
\* OCPS handlers, which leave them as the registers reset: index 0, no
\* increment
GBVideoReset ==
    [ ly |-> 0, x |-> 0, mode |-> 1, stat |-> 1,
      nextEvent |-> INT_MAX, eventDiff |-> 0,
      nextMode |-> INT_MAX, dotCounter |-> INT_MIN, nextFrame |-> INT_MAX,
      frameCounter |-> 0, frameskipCounter |-> 0,
      frameskip |-> 0,
      objMax |-> 0,
      objThisLine |-> [k \in 1 .. MaxObjPerLine |-> NoObj],
      oam |-> OamEmpty,
      palette |-> [k \in 1 .. PaletteEntries |-> 0],
      bcpIndex |-> 0, bcpIncrement |-> FALSE,
      ocpIndex |-> 0, ocpIncrement |-> FALSE ]

\* The registers after the IO layer's reset: LCD off, STAT as video->stat
IOReset(scx) ==
    [REG_LCDC |-> 0, REG_STAT |-> 1, REG_LY |-> 0, REG_LYC |-> 0,
     REG_SCX |-> scx, REG_IF |-> 0,
     REG_BCPS |-> 0, REG_BCPD |-> 0, REG_OCPS |-> 0, REG_OCPD |-> 0]

NoClock == [sinceEnded |-> -1, period |-> -1,
            sinceGB |-> -1, gbPeriod |-> -1, gbDelay |-> 0, gbPrevDelay |-> 0,
            misalign |-> 0, offs |-> 0, scans |-> 0, writes |-> <<>>,
            reloads |-> <<>>, ranges |-> <<>>, line |-> <<>>, cpu |-> 0,
            toggles |-> 0]

NoTwin == <<>>
NoSave == <<>>

\* The run starts from reset, with the frameskip the front end has set and
\* the OAM the program has filled: both are stored straight into the
\* struct, by code outside video.c
InitWith(models, scxs, oams, skips) ==
    /\ \E fs \in skips, oam \in oams :
         video = [GBVideoReset EXCEPT !.frameskip = fs, !.oam = oam]
    /\ \E scx \in scxs : io = IOReset(scx)
    /\ gb \in models
    /\ out = NoOut
    /\ sync = 0
    /\ lastOp = "GBVideoReset"
    /\ clock = NoClock
    /\ saved = NoSave
    /\ twin = NoTwin

Dmg == [model |-> GB_MODEL_DMG, doubleSpeed |-> 0]
CgbDouble == [model |-> GB_MODEL_CGB, doubleSpeed |-> 1]

---------------------------------------------------------------------------
(* The driver *)

\* values of cpu->executionState: an idle state, fetch, a later state
ExecStates == {0, LR35902_CORE_FETCH, 7}

\* values of cpu->cycles at a register write
WriteCycles == {0, 3}

LcdEnabled == GBRegisterLCDCIsEnable(io.REG_LCDC)

\* The observation of time: the cycles between frame-ended notifications,
\* kept only by the specifications that measure them (timed)
\* The drawRange calls since the last finishScanline, and those of the line
\* that finishScanline closed
Drawn(c, o) ==
    [c EXCEPT !.ranges = IF o.finishScanline # -1 THEN <<>>
                         ELSE IF o.drawRange # <<>>
                         THEN Append(@, <<o.drawRange[1], o.drawRange[2]>>)
                         ELSE @,
              !.line = IF o.finishScanline # -1 THEN c.ranges ELSE @]

Tick(cycles, o, timed) ==
    LET since == IF clock.sinceEnded >= 0 THEN clock.sinceEnded + cycles ELSE -1
        sinceGB == IF clock.sinceGB >= 0 THEN clock.sinceGB + cycles ELSE -1
        c1 == IF ~timed THEN clock
              ELSE [clock EXCEPT
                      !.sinceEnded = IF o.frameEnded THEN 0 ELSE since,
                      !.period = IF o.frameEnded THEN since ELSE @,
                      !.sinceGB = IF o.gbFrameEnded THEN 0 ELSE sinceGB,
                      !.gbPeriod = IF o.gbFrameEnded THEN sinceGB ELSE @,
                      !.gbDelay = IF o.gbFrameEnded
                                  THEN (IF o.frameEnded THEN 0 ELSE since)
                                  ELSE @,
                      !.gbPrevDelay = IF o.gbFrameEnded THEN clock.gbDelay ELSE @]
        c2 == IF timed THEN Drawn(c1, o) ELSE c1
    IN [c2 EXCEPT !.misalign = IF o.gbFrameEnded THEN 0
                               ELSE IF o.deferred THEN @ + 1
                               ELSE @,
                  \* the reloads of nextMode since the line began
                  !.reloads = IF ~timed \/ o.modeStep = -1 THEN @
                              ELSE IF o.modeStep \in {0, 1} THEN <<o.reload>>
                              ELSE Append(@, o.reload),
                  \* cpu->cycles starts again after the call
                  !.cpu = 0]

\* One call of GBVideoProcessEvents by the driver.  The execution state
\* is read only when the frame tick is due.
Advance(cycles, timed) ==
    /\ video.frameCounter < (IF timed THEN MaxFrames ELSE MaxRunFrames)
    /\ clock.offs = 0 \/ video.ly < MaxReLines
    /\ saved = NoSave \/ video.ly < MaxReLines
    /\ \E fetch \in {GBVideoProcessEvents(video, io, cycles, LR35902_CORE_FETCH, 0)} :
         \E e \in IF fetch.out.gbFrameEnded /\ clock.misalign < MaxMisalign
                  THEN ExecStates
                  ELSE {LR35902_CORE_FETCH} :
           \E s \in {IF e = LR35902_CORE_FETCH THEN fetch
                     ELSE GBVideoProcessEvents(video, io, cycles, e, 0)} :
              /\ video' = s.v
              /\ io' = s.io
              /\ out' = s.out
              /\ sync' = IF s.out.postFrame THEN sync + 1 ELSE sync
              /\ clock' = Tick(cycles, s.out, timed)
              /\ lastOp' = "GBVideoProcessEvents"
    /\ UNCHANGED <<gb, saved, twin>>

\* The driver returns exactly when the core asked to be called
StepExact(timed) ==
    /\ video.nextEvent # INT_MAX
    /\ Advance(video.nextEvent, timed)

\* GBVideoWriteLCDC, then the IO layer stores the byte
WriteLCDC(value) ==
    /\ \E c \in WriteCycles :
         \E s \in {GBVideoWriteLCDC(video, io, value, c)} :
            /\ video' = s.v
            /\ io' = [s.io EXCEPT !.REG_LCDC = value]
            /\ out' = s.out
            /\ clock' = [clock EXCEPT !.offs = IF LcdEnabled /\ ~GBRegisterLCDCIsEnable(value)
                                               THEN @ + 1 ELSE @,
                                      !.cpu = c]
    /\ lastOp' = "GBVideoWriteLCDC"
    /\ UNCHANGED <<gb, sync, saved, twin>>

\* The driver looks in before the deadline
StepPartial(timed) ==
    /\ video.nextEvent # INT_MAX
    /\ video.eventDiff < MaxPartial
    /\ 1 < video.nextEvent
    /\ Advance(1, timed)

\* The driver advances while nothing is scheduled
StepIdle ==
    /\ video.nextEvent = INT_MAX
    /\ video.eventDiff < MaxIdle
    /\ Advance(1, FALSE)

\* GBVideoWriteSTAT
WriteSTAT(value) ==
    /\ \E s \in {GBVideoWriteSTAT(video, io, value)} :
         /\ video' = s.v
         /\ io' = s.io
         /\ out' = s.out
    /\ lastOp' = "GBVideoWriteSTAT"
    /\ UNCHANGED <<gb, sync, clock, saved, twin>>

\* GBVideoWriteLYC, then the IO layer stores the byte
WriteLYC(value) ==
    /\ \E s \in {GBVideoWriteLYC(video, io, value)} :
         /\ video' = s.v
         /\ io' = [s.io EXCEPT !.REG_LYC = value]
         /\ out' = s.out
    /\ lastOp' = "GBVideoWriteLYC"
    /\ UNCHANGED <<gb, sync, clock, saved, twin>>

---------------------------------------------------------------------------
(* Spec: the LCD is switched on and off, STAT is written, and the driver   *)
(* returns at or before the deadline                                       *)

\* the lines on which the program writes STAT or switches the LCD off
WriteLines == {0, 1, GB_VIDEO_VERTICAL_PIXELS}

\* the STAT bytes the program writes: every source, the LYC source alone
StatValues == {120, 64}

Init == InitWith({Dmg, CgbDouble}, {0}, {OamStaggered}, {0})

LcdOn ==
    /\ ~LcdEnabled
    /\ WriteLCDC(128)

LcdOff ==
    /\ LcdEnabled
    /\ video.ly \in WriteLines
    /\ clock.offs < MaxOff
    /\ WriteLCDC(0)

LcdSame ==
    /\ lastOp = "GBVideoWriteLCDC"
    /\ WriteLCDC(io.REG_LCDC)

StatWrite ==
    /\ video.stat \div 8 = 0
    /\ video.ly \in WriteLines
    /\ \E value \in StatValues : WriteSTAT(value)

Next ==
    \/ LcdOn
    \/ LcdOff
    \/ LcdSame
    \/ StatWrite
    \/ StepExact(FALSE)
    \/ StepPartial(FALSE)
    \/ StepIdle

Spec == Init /\ [][Next]_vars

---------------------------------------------------------------------------
(* SpecFrame: the LCD is switched on once and the driver returns at every  *)
(* deadline; no other register is written                                  *)

InitFrame == InitWith({Dmg}, {5}, {OamEmpty, OamCrowded}, 0 .. MaxSkip)

EnableOnce ==
    /\ lastOp = "GBVideoReset"
    /\ WriteLCDC(128)

RunFrame == StepExact(TRUE)

NextFrame == EnableOnce \/ RunFrame

SpecFrame == InitFrame /\ [][NextFrame]_vars

---------------------------------------------------------------------------
(* SpecLYC: the LCD is switched on once, LYC is written at any moment and  *)
(* the driver returns at or before the deadline                            *)

\* the LYC bytes the program writes
LycValues == {0, 1, 2, GB_VIDEO_VERTICAL_PIXELS, GB_VIDEO_VERTICAL_TOTAL_PIXELS}

InitLYC == InitWith({Dmg}, {0}, {OamEmpty}, {0})

LycWrite ==
    /\ LcdEnabled
    /\ \E value \in LycValues \ {io.REG_LYC} : WriteLYC(value)

NextLYC ==
    \/ EnableOnce
    \/ LycWrite
    \/ StepExact(FALSE)
    \/ StepPartial(FALSE)

SpecLYC == InitLYC /\ [][NextLYC]_vars

---------------------------------------------------------------------------
(* SpecSave: the LCD is switched on once, the state is saved on one of the *)
(* first lines and loaded back later, and the driver returns at or before  *)
(* the deadline                                                            *)

InitSave == InitWith({Dmg}, {0}, {OamStaggered}, {0})

Save ==
    /\ LcdEnabled
    /\ saved = NoSave
    /\ video.ly < MaxSaveLines
    /\ saved' = [state |-> GBVideoSerialize(video), loads |-> 0]
    /\ lastOp' = "GBVideoSerialize"
    /\ out' = NoOut
    /\ UNCHANGED <<video, io, gb, sync, clock, twin>>

Load ==
    /\ saved # NoSave
    /\ saved.loads < MaxLoads
    /\ video' = GBVideoDeserialize(video, io, saved.state)
    /\ saved' = [saved EXCEPT !.loads = @ + 1]
    /\ lastOp' = "GBVideoDeserialize"
    /\ out' = [NoOut EXCEPT !.cleanY = saved.state.ly,
                            !.writePalette = PaletteCallbacks(video')]
    /\ UNCHANGED <<io, gb, sync, clock, twin>>

NextSave ==
    \/ EnableOnce
    \/ Save
    \/ Load
    \/ StepExact(FALSE)
    \/ StepPartial(FALSE)

SpecSave == InitSave /\ [][NextSave]_vars

---------------------------------------------------------------------------
(* SpecOAM: _cleanOAM on its own, for OAM contents whose Y bytes run down  *)
(* the table with a stride, from a first byte, modulo a wrap; both sprite  *)
(* heights; lines at the top, the middle and the bottom of the screen      *)

\* the first Y bytes: above the screen, at its top edge, on the screen
OamStarts == {0, 9, 16, 150}

\* the wraps of the Y bytes: all within three rows, the whole byte
OamWraps == {19, 256}

\* the lines scanned
ScanLines == {0, 1, 7, 8, 15, GB_VIDEO_VERTICAL_PIXELS - 1}

\* LCDC with 8-line and with 16-line sprites
ObjSizes == {0, 4}

InitOAM ==
    /\ \E a \in 0 .. MaxStride, b \in OamStarts, m \in OamWraps :
         video = [GBVideoReset EXCEPT !.oam = OamPattern(a, b, m)]
    /\ \E lcdc \in ObjSizes : io = [IOReset(0) EXCEPT !.REG_LCDC = lcdc]
    /\ gb = Dmg
    /\ out = NoOut
    /\ sync = 0
    /\ lastOp = "GBVideoReset"
    /\ clock = NoClock
    /\ saved = NoSave
    /\ twin = NoTwin

Scan ==
    /\ clock.scans < MaxScans
    /\ \E y \in ScanLines :
         /\ video' = cleanOAM(video, io.REG_LCDC, y)
         /\ out' = [NoOut EXCEPT !.cleanY = y]
    /\ clock' = [clock EXCEPT !.scans = @ + 1]
    /\ lastOp' = "_cleanOAM"
    /\ UNCHANGED <<io, gb, sync, saved, twin>>

NextOAM == Scan

SpecOAM == InitOAM /\ [][NextOAM]_vars

---------------------------------------------------------------------------
(* SpecSkip: two cores that differ in frameskip alone are given the same   *)
(* register writes and the same calls of GBVideoProcessEvents.  video and  *)
(* io are the core that skips frames; twin is the core that skips none,    *)
(* split off at the first register write.                                  *)

InitSkip == InitWith({Dmg}, {5}, {OamStaggered}, 1 .. MaxSkip)

BothEnable ==
    /\ lastOp = "GBVideoReset"
    /\ \E c \in WriteCycles :
         \E s \in {GBVideoWriteLCDC(video, io, 128, c)},
            w \in {GBVideoWriteLCDC([video EXCEPT !.frameskip = 0], io, 128, c)} :
            /\ video' = s.v
            /\ io' = [s.io EXCEPT !.REG_LCDC = 128]
            /\ out' = s.out
            /\ twin' = [w EXCEPT !.io.REG_LCDC = 128]
    /\ lastOp' = "GBVideoWriteLCDC"
    /\ UNCHANGED <<gb, sync, clock, saved>>

BothAdvance(cycles) ==
    /\ twin # NoTwin
    /\ video.frameCounter < MaxFrames
    /\ \E fetch \in {GBVideoProcessEvents(video, io, cycles, LR35902_CORE_FETCH, 0)} :
         \E e \in IF fetch.out.gbFrameEnded /\ clock.misalign < MaxMisalign
                  THEN ExecStates
                  ELSE {LR35902_CORE_FETCH} :
           \E s \in {IF e = LR35902_CORE_FETCH THEN fetch
                     ELSE GBVideoProcessEvents(video, io, cycles, e, 0)},
              w \in {GBVideoProcessEvents(twin.v, twin.io, cycles, e, 0)} :
              /\ video' = s.v
              /\ io' = s.io
              /\ out' = s.out
              /\ twin' = w
              /\ sync' = IF s.out.postFrame THEN sync + 1 ELSE sync
              /\ clock' = Tick(cycles, s.out, FALSE)
              /\ lastOp' = "GBVideoProcessEvents"
    /\ UNCHANGED <<gb, saved>>

BothStepExact ==
    /\ video.nextEvent # INT_MAX
    /\ BothAdvance(video.nextEvent)

BothStepPartial ==
    /\ video.nextEvent # INT_MAX
    /\ video.eventDiff < MaxPartial
    /\ 1 < video.nextEvent
    /\ BothAdvance(1)

BothStat ==
    /\ twin # NoTwin
    /\ video.stat \div 8 = 0
    /\ video.ly \in WriteLines
    /\ \E value \in StatValues :
         \E s \in {GBVideoWriteSTAT(video, io, value)},
            w \in {GBVideoWriteSTAT(twin.v, twin.io, value)} :
            /\ video' = s.v
            /\ io' = s.io
            /\ out' = s.out
            /\ twin' = w
    /\ lastOp' = "GBVideoWriteSTAT"
    /\ UNCHANGED <<gb, sync, clock, saved>>

NextSkip ==
    \/ BothEnable
    \/ BothStepExact
    \/ BothStepPartial
    \/ BothStat

SpecSkip == InitSkip /\ [][NextSkip]_vars

---------------------------------------------------------------------------
(* SpecPal: the palette registers on their own.  The cursors are inputs:   *)
(* the IO layer's BCPS and OCPS handlers store them, and the select        *)
(* registers hold the increment flag in bit 7 over the index.              *)

\* <<index, increment>>: the start, the wrap, a fixed cursor
BcpStarts == {<<0, TRUE>>, <<63, TRUE>>, <<62, FALSE>>}
OcpStarts == {<<0, TRUE>>, <<63, TRUE>>, <<61, FALSE>>}
NoCursor == <<0, FALSE>>
\* 0x34, 0x12, 0xFF
DataValues == {52, 18, 255}
\* 0xE4: the four shades in order
ShadeValues == {228}

SelectByte(cursor) == (IF cursor[2] THEN 128 ELSE 0) + cursor[1]

InitPal ==
    /\ gb \in {Dmg, CgbDouble}
    /\ \E b \in (IF gb.model = GB_MODEL_CGB THEN BcpStarts ELSE {NoCursor}),
          o \in (IF gb.model = GB_MODEL_CGB THEN OcpStarts ELSE {NoCursor}) :
         /\ video = [GBVideoReset EXCEPT !.bcpIndex = b[1],
                                         !.bcpIncrement = b[2],
                                         !.ocpIndex = o[1],
                                         !.ocpIncrement = o[2]]
         /\ io = [IOReset(0) EXCEPT !.REG_BCPS = SelectByte(b),
                                    !.REG_OCPS = SelectByte(o)]
    /\ out = NoOut
    /\ sync = 0
    /\ lastOp = "GBVideoReset"
    /\ clock = NoClock
    /\ saved = NoSave
    /\ twin = NoTwin

WritePalette(address, value) ==
    /\ Len(clock.writes) < MaxPalWrites
    /\ \E s \in {GBVideoWritePalette(video, io, address, value)} :
         /\ video' = s.v
         /\ io' = s.io
         /\ out' = s.out
    /\ clock' = [clock EXCEPT !.writes = Append(@, <<address, value>>)]
    /\ lastOp' = "GBVideoWritePalette"
    /\ UNCHANGED <<gb, sync, saved, twin>>

WriteData == \E a \in {REG_BCPD, REG_OCPD}, value \in DataValues : WritePalette(a, value)

WriteShades == \E a \in {REG_BGP, REG_OBP0, REG_OBP1}, value \in ShadeValues : WritePalette(a, value)

NextPal == WriteData \/ WriteShades

SpecPal == InitPal /\ [][NextPal]_vars

---------------------------------------------------------------------------
(* SpecRound: a core is run, serialized, and the payload is loaded into a  *)
(* second core that was only initialised and reset, beside the same IO     *)
(* registers; from then on both cores are driven by the same calls.        *)
(* `twin` is the core that was serialized, `video` the one loaded.         *)

InitRound == InitWith({Dmg}, {0}, {OamStaggered}, {0})

\* the program sets BGP before it switches the LCD on
RoundShades ==
    /\ lastOp = "GBVideoReset"
    /\ WriteShades

RoundRun ==
    /\ saved = NoSave
    /\ StepExact(FALSE)

SaveCore ==
    /\ LcdEnabled
    /\ saved = NoSave
    /\ video.ly \in WriteLines
    /\ saved' = [state |-> GBVideoSerialize(video), loads |-> 0]
    /\ twin' = [v |-> video, io |-> io, out |-> NoOut]
    /\ lastOp' = "GBVideoSerialize"
    /\ out' = NoOut
    /\ UNCHANGED <<video, io, gb, sync, clock>>

LoadFresh ==
    /\ lastOp = "GBVideoSerialize"
    /\ video' = GBVideoDeserialize([GBVideoReset EXCEPT !.frameskip = video.frameskip],
                                   io, saved.state)
    /\ saved' = [saved EXCEPT !.loads = @ + 1]
    /\ lastOp' = "GBVideoDeserialize"
    /\ out' = [NoOut EXCEPT !.cleanY = saved.state.ly,
                            !.writePalette = PaletteCallbacks(video')]
    /\ UNCHANGED <<io, gb, sync, clock, twin>>

RoundStep ==
    /\ saved # NoSave
    /\ saved.loads > 0
    /\ BothStepExact

NextRound ==
    \/ RoundShades
    \/ EnableOnce
    \/ RoundRun
    \/ SaveCore
    \/ LoadFresh
    \/ RoundStep

SpecRound == InitRound /\ [][NextRound]_vars

---------------------------------------------------------------------------
(* SpecIrq: the interrupt sources.  After reset the program writes LYC,    *)
(* STAT and LCDC in any order, before the LCD is on or on lines 0, 1 and   *)
(* 144 of a running frame.                                                 *)

\* 0x40 LYC, 0x20 OAM, 0x28 OAM and HBlank, 0x10 VBlank
IrqStatValues == {64, 32, 40, 16}
IrqLycValues == {5}

InitIrq == InitWith({Dmg}, {0}, {OamEmpty}, {0})

IrqEnable ==
    /\ ~LcdEnabled
    /\ WriteLCDC(128)

IrqLyc ==
    /\ io.REG_LYC = 0
    /\ video.ly \in WriteLines
    /\ \E value \in IrqLycValues : WriteLYC(value)

IrqStat ==
    /\ video.stat \div 8 = 0
    /\ video.ly \in WriteLines
    /\ \E value \in IrqStatValues : WriteSTAT(value)

IrqRun == StepExact(FALSE)

NextIrq ==
    \/ IrqEnable
    \/ IrqLyc
    \/ IrqStat
    \/ IrqRun

SpecIrq == InitIrq /\ [][NextIrq]_vars

---------------------------------------------------------------------------
(* SpecDrive: the driver.  It calls GBVideoProcessEvents when the cycles   *)
(* the core asked for have passed, or a few cycles later, as the CPU       *)
(* finishes its instruction; and it always calls again.                    *)

\* cycles by which a call overshoots the deadline
LateCycles == {1, 7}

InitDrive == InitWith({Dmg, CgbDouble}, {0}, {OamStaggered}, {0})

DriveExact == StepExact(FALSE)

DriveLate ==
    /\ video.nextEvent # INT_MAX
    /\ video.ly < MaxReLines
    /\ \E k \in LateCycles : Advance(video.nextEvent + k, FALSE)

NextDrive ==
    \/ IrqEnable
    \/ StepIdle
    \/ DriveExact
    \/ DriveLate

\* The guards of DriveExact: its ENABLED
DriveReady ==
    /\ video.nextEvent # INT_MAX
    /\ video.frameCounter < MaxRunFrames

\* Weak fairness of the driver's call, WF_vars(DriveExact \/ DriveLate),
\* written out with DriveReady for ENABLED <<DriveExact \/ DriveLate>>_vars
DriveFair == []<>(~DriveReady) \/ []<><<DriveExact \/ DriveLate>>_vars

SpecDrive == InitDrive /\ [][NextDrive]_vars /\ DriveFair

---------------------------------------------------------------------------
(* SpecLine: the lengths of the three modes of a line, for every fine      *)
(* scroll and every number of sprites on the line.  The first frame is     *)
(* run, with every call made at its deadline.                              *)

\* the first n sprites on lines 0..7, the others off the screen
OamFirst(n) ==
    [k \in 1 .. OamEntries |->
        IF k <= n THEN [y |-> 16, x |-> 7 + k, tile |-> k - 1, attr |-> 0]
        ELSE NoObj]

InitLine ==
    InitWith({Dmg}, 0 .. 7,
             {OamFirst(n) : n \in 0 .. MaxObjPerLine + MaxExtraObj}, {0})

LineRun ==
    /\ video.frameCounter = 0
    /\ StepExact(TRUE)

NextLine == EnableOnce \/ LineRun

SpecLine == InitLine /\ [][NextLine]_vars

---------------------------------------------------------------------------
(* SpecDots: the dot clock.  The driver calls at the deadline; the IO      *)
(* layer calls GBVideoProcessDots before a register write that the         *)
(* renderer must see, with cpu->cycles the cycles since the driver's last  *)
(* call; the program switches the LCD off and on once.                     *)

\* cpu->cycles at a call of the IO layer
PokeCycles == {1, 60}
\* lines on which the program switches the LCD off
DotsOffLines == {2}

InitDots == InitWith({Dmg}, {7}, {OamEmpty}, {0})

DotsRun == StepExact(TRUE)

DotsPoke ==
    /\ LcdEnabled
    /\ video.mode = 3
    /\ \E c \in PokeCycles :
         /\ clock.cpu < c
         /\ c < video.nextEvent
         /\ \E s \in {GBVideoProcessDots([v |-> video, io |-> io, out |-> NoOut], c)} :
              /\ video' = s.v
              /\ io' = s.io
              /\ out' = s.out
              /\ clock' = [Drawn(clock, s.out) EXCEPT !.cpu = c]
    /\ lastOp' = "GBVideoProcessDots"
    /\ UNCHANGED <<gb, sync, saved, twin>>

DotsOff ==
    /\ LcdEnabled
    /\ video.frameCounter > 0
    /\ video.ly \in DotsOffLines
    /\ clock.toggles < MaxToggles
    /\ \E s \in {GBVideoWriteLCDC(video, io, 0, 0)} :
         /\ video' = s.v
         /\ io' = [s.io EXCEPT !.REG_LCDC = 0]
         /\ out' = s.out
    /\ clock' = [clock EXCEPT !.toggles = @ + 1, !.ranges = <<>>, !.cpu = 0]
    /\ lastOp' = "GBVideoWriteLCDC"
    /\ UNCHANGED <<gb, sync, saved, twin>>

DotsOn ==
    /\ lastOp \in {"GBVideoReset", "GBVideoWriteLCDC"}
    /\ LcdOn

NextDots ==
    \/ DotsOn
    \/ DotsRun
    \/ DotsPoke
    \/ DotsOff

SpecDots == InitDots /\ [][NextDots]_vars

---------------------------------------------------------------------------
(* The claims *)

IsAdvance == lastOp = "GBVideoProcessEvents"

\* the length of the line ladder: lines 0 .. GB_VIDEO_VERTICAL_TOTAL_PIXELS
LadderLength == GB_VIDEO_VERTICAL_TOTAL_PIXELS * GB_VIDEO_HORIZONTAL_LENGTH

C2_LYRange ==
    [][LcdEnabled' /\ IsAdvance'
         => /\ video'.ly \in 0 .. 153
            /\ \/ video'.ly = video.ly
               \/ video'.ly = video.ly + 1
               \/ video.ly = 153 /\ video'.ly = 0]_vars

C2_Witness ==
    /\ LcdEnabled
    /\ out.finishFrame
    /\ video.ly = 0
    /\ video.frameCounter >= 1

(* C5: after every call of GBVideoProcessEvents nextEvent is at most       *)
(* min(nextMode, nextFrame), and equal to it after a call that fired.      *)
C5_SchedulerInvariant ==
    IsAdvance =>
        /\ video.nextEvent <= Min(video.nextMode, video.nextFrame)
        /\ out.fired => video.nextEvent = Min(video.nextMode, video.nextFrame)

(* C6 as stated: while LCDC bit 7 is clear, nextMode = INT_MAX, ly = 0 and *)
(* mode = 0, and GBVideoProcessEvents raises neither VBlank nor LCDSTAT.   *)
C6_LcdDisabledOriginal ==
    ~LcdEnabled =>
        /\ video.nextMode = INT_MAX
        /\ video.ly = 0
        /\ video.mode = 0
        /\ IsAdvance => out.irq = {}

(* C6 as amended: while LCDC bit 7 is clear, nextMode = INT_MAX and ly = 0;*)
(* mode is 0 once the LCD has been switched off, and 1, as GBVideoReset    *)
(* leaves it, until the LCD is first switched on; GBVideoProcessEvents     *)
(* runs no mode case and raises neither VBlank nor LCDSTAT.                *)
C6_LcdDisabled ==
    ~LcdEnabled =>
        /\ video.nextMode = INT_MAX
        /\ video.ly = 0
        /\ video.mode = IF clock.offs = 0 THEN 1 ELSE 0
        /\ GBRegisterSTATGetMode(video.stat) = video.mode
        /\ IsAdvance => out.irq = {} /\ out.modeStep = -1

C6_Witness ==
    /\ ~LcdEnabled
    /\ clock.offs > 0
    /\ IsAdvance
    /\ out.gbFrameEnded
    /\ GBRegisterSTATIsVblankIRQ(video.stat)
    /\ GBRegisterSTATIsOAMIRQ(video.stat)

(* C7: with the LCD on, mode = 1 exactly when ly is in 144..153.           *)
C7_VBlankLines ==
    LcdEnabled => (video.mode = 1 <=> video.ly \in 144 .. 153)

C7_Witness ==
    /\ LcdEnabled
    /\ IsAdvance
    /\ video.mode = 1
    /\ video.ly = 153

(* C9 as stated: after n frame ticks floor(n / (frameskip + 1)) frames     *)
(* have been posted to the sync object.                                    *)
C9_FrameskipCountOriginal ==
    sync = video.frameCounter \div (video.frameskip + 1)

(* C9 as amended: after n frame ticks ceil(n / (frameskip + 1)) frames     *)
(* have been posted: the first tick posts, then every (frameskip + 1)th.   *)
C9_FrameskipCount ==
    sync = (video.frameCounter + video.frameskip) \div (video.frameskip + 1)

C9_Witness ==
    /\ video.frameskip = 1
    /\ video.frameCounter = 3
    /\ sync = 2

\* a call of GBVideoProcessEvents that took LY to a new line
LineStep ==
    /\ IsAdvance
    /\ out.modeStep \in {0, 1}
    /\ ~out.finishFrame

(* C4 as stated: after every call of GBVideoProcessEvents that ran a mode  *)
(* case, bit 2 of IO[STAT] tells whether IO[LY] = IO[LYC].                 *)
C4_LYCCoincidenceOriginal ==
    IsAdvance /\ out.modeStep # -1
        => GBRegisterSTATIsLYC(io.REG_STAT) = (io.REG_LY = io.REG_LYC)

(* C4 as amended: after a call of GBVideoProcessEvents that changed LY     *)
(* (the end of mode 0, and each line of VBlank but the wrap to line 0),    *)
(* bit 2 of IO[STAT] tells whether IO[LY] = IO[LYC]; at every other mode   *)
(* boundary (2 -> 3, 3 -> 0, the wrap) IO[STAT] takes the bit as the stat  *)
(* field held it, last set at the LY change or by a LYC write in mode 2.   *)
C4_LYCCoincidence ==
    [][IsAdvance' /\ out'.modeStep # -1
         => IF LineStep'
            THEN GBRegisterSTATIsLYC(io'.REG_STAT) = (io'.REG_LY = io'.REG_LYC)
            ELSE GBRegisterSTATIsLYC(io'.REG_STAT) = GBRegisterSTATIsLYC(video.stat)]_vars

C4_Witness ==
    /\ LineStep
    /\ io.REG_LYC = 2
    /\ io.REG_LY = 2
    /\ GBRegisterSTATIsLYC(io.REG_STAT)


(* C3: after every call of GBVideoProcessEvents the low two bits of        *)
(* IO[STAT] and of the stat field are the mode.                            *)
C3_StatMirror ==
    IsAdvance =>
        /\ GBRegisterSTATGetMode(io.REG_STAT) = video.mode
        /\ GBRegisterSTATGetMode(video.stat) = video.mode


\* the OAM indices whose sprite covers line y
OnLine(y) ==
    { k \in 1 .. OamEntries :
        /\ video.oam[k].y - 16 <= y
        /\ y < video.oam[k].y - 16 + SpriteHeight(io.REG_LCDC) }

\* the j-th of them, in index order
NthOnLine(y, j) ==
    CHOOSE k \in OnLine(y) : Cardinality({i \in OnLine(y) : i < k}) = j - 1

(* C8: after _cleanOAM(video, y), objMax is min(10, n) for the n entries   *)
(* whose Y byte oy has oy - 16 <= y < oy - 16 + h, and objThisLine holds   *)
(* the first objMax of them in index order.                                *)
C8_OamSelection ==
    out.cleanY # -1 =>
        /\ video.objMax = Min(MaxObjPerLine, Cardinality(OnLine(out.cleanY)))
        /\ \A j \in 1 .. video.objMax :
             video.objThisLine[j] = video.oam[NthOnLine(out.cleanY, j)]

C8_Witness ==
    /\ lastOp = "_cleanOAM"
    /\ Cardinality(OnLine(out.cleanY)) > MaxObjPerLine
    /\ video.objMax = MaxObjPerLine
    /\ NthOnLine(out.cleanY, 1) > 1
    /\ SpriteHeight(io.REG_LCDC) = 16


\* what the claim compares between the two cores
Shown(v, r) ==
    <<v.mode, v.ly, v.stat, r.REG_STAT, r.REG_LY, r.REG_IF,
      v.nextMode, v.nextFrame, v.objMax>>

(* C10: a core with frameskip > 0 and the core with frameskip 0, given the *)
(* same writes and the same calls, show the same mode, ly, STAT, IF,       *)
(* interrupt raises, nextMode, nextFrame and objMax after every operation; *)
(* where the one calls drawRange or finishScanline the other makes the     *)
(* same call if its frameskipCounter was <= 0 at the call and no call if   *)
(* it was > 0.  Two cores with any two values of frameskip then agree      *)
(* with each other, both agreeing with the core that skips none.           *)
C10_FrameskipTransparency ==
    [][twin' # NoTwin =>
         /\ Shown(video', io') = Shown(twin'.v, twin'.io)
         /\ out'.irq = twin'.out.irq
         /\ out'.drawDue = twin'.out.drawDue
         /\ out'.scanDue = twin'.out.scanDue
         /\ out'.drawDue =>
              /\ twin'.out.drawRange # <<>>
              /\ out'.drawRange = IF video.frameskipCounter <= 0
                                  THEN twin'.out.drawRange
                                  ELSE <<>>
         /\ out'.scanDue =>
              /\ twin'.out.finishScanline # -1
              /\ out'.finishScanline = IF video.frameskipCounter <= 0
                                       THEN twin'.out.finishScanline
                                       ELSE -1]_vars

C10_Witness ==
    /\ twin # NoTwin
    /\ IsAdvance
    /\ video.frameskipCounter > 0
    /\ out.drawDue
    /\ out.drawRange = <<>>
    /\ twin.out.drawRange # <<>>
    /\ video.objMax > 0
    /\ GBRegisterSTATIsOAMIRQ(video.stat)


---------------------------------------------------------------------------
\* One byte of a colour: 0 the low byte, 1 the high byte
ByteOf(word, half) == (word \div (256 ^ half)) % 256

\* A CGB data write through the cursor `index` into palette[base ..] left
\* from palette `old` the palette `new`, the cursor `next` and the select
\* register `select`: only the addressed byte changed, and it is `value`
DataWritten(old, new, base, index, increment, value, next, oldSelect, select) ==
    /\ \A i \in 1 .. PaletteEntries, half \in {0, 1} :
         ByteOf(new[i], half) =
             IF i - 1 = base + (index \div 2) /\ half = index % 2
             THEN value
             ELSE ByteOf(old[i], half)
    /\ \A i \in 1 .. PaletteEntries : new[i] \in 0 .. 65535
    /\ IF increment
       THEN /\ next = (index + 1) % 64
            /\ select % 64 = next
            /\ select \div 128 = oldSelect \div 128
       ELSE /\ next = index
            /\ select = oldSelect

\* The three writes of 0x34, 0x12, 0xFF through BCPD
ThreeWrites == <<<<REG_BCPD, 52>>, <<REG_BCPD, 18>>, <<REG_BCPD, 255>>>>

\* C14: on a CGB a write of v through BCPD replaces only the byte that
\* bcpIndex selects in palette[bcpIndex >> 1]; with bcpIncrement the cursor
\* becomes (bcpIndex + 1) & 0x3F and the low six bits of BCPS become the new
\* cursor with bit 7 kept; OCPD does the same through ocpIndex into
\* palette[32 + (ocpIndex >> 1)] and OCPS; and after 0x34, 0x12, 0xFF from
\* an incrementing cursor at 0, palette[0] is 0x1234, the low byte of
\* palette[1] is 0xFF and bcpIndex is 3.
C14_PaletteWrite ==
    [][(lastOp' = "GBVideoWritePalette" /\ gb.model = GB_MODEL_CGB) =>
        /\ out'.wrote[1] = REG_BCPD =>
              /\ DataWritten(video.palette, video'.palette, 0, video.bcpIndex,
                             video.bcpIncrement, out'.wrote[2],
                             video'.bcpIndex, io.REG_BCPS, io'.REG_BCPS)
              /\ video'.ocpIndex = video.ocpIndex
        /\ out'.wrote[1] = REG_OCPD =>
              /\ DataWritten(video.palette, video'.palette, 32, video.ocpIndex,
                             video.ocpIncrement, out'.wrote[2],
                             video'.ocpIndex, io.REG_OCPS, io'.REG_OCPS)
              /\ video'.bcpIndex = video.bcpIndex
        /\ (/\ clock'.writes = ThreeWrites
            /\ video'.bcpIncrement
            /\ video'.bcpIndex = 3) =>
              /\ video'.palette[1] = 4660
              /\ video'.palette[2] % 256 = 255]_vars

\* the three writes have been made from an incrementing cursor at 0
C14_Witness ==
    /\ gb.model = GB_MODEL_CGB
    /\ clock.writes = ThreeWrites
    /\ video.bcpIncrement
    /\ video.bcpIndex = 3
    /\ video.palette[1] = 4660
    /\ io.REG_BCPS = 131

---------------------------------------------------------------------------
\* C11: a core loaded from the payload of another, beside the same IO
\* registers, and driven by the same calls shows the same modes, the same
\* LY, raises the same interrupts, ends the same frames and returns the
\* same values as the core that was serialized.
C11_RoundTrip ==
    (twin # NoTwin /\ saved # NoSave /\ lastOp = "GBVideoProcessEvents") =>
        /\ video.mode = twin.v.mode
        /\ video.ly = twin.v.ly
        /\ io.REG_LY = twin.io.REG_LY
        /\ out.irq = twin.out.irq
        /\ out.frameEnded = twin.out.frameEnded
        /\ out.gbFrameEnded = twin.out.gbFrameEnded
        /\ out.ret = twin.out.ret

\* C12: a core that was only initialised and reset, once loaded from the
\* payload of a core serialized on a visible line, has that core's ly,
\* mode, nextEvent, nextMode, nextFrame, palette and oam, and its renderer
\* was given writePalette once for each index 0..63, with the loaded value.
C12_FreshCore ==
    (lastOp = "GBVideoDeserialize" /\ twin # NoTwin
        /\ twin.v.ly < GB_VIDEO_VERTICAL_PIXELS) =>
        /\ video.ly = twin.v.ly
        /\ video.mode = twin.v.mode
        /\ video.nextEvent = twin.v.nextEvent
        /\ video.nextMode = twin.v.nextMode
        /\ video.nextFrame = twin.v.nextFrame
        /\ video.palette = twin.v.palette
        /\ video.oam = twin.v.oam
        /\ Len(out.writePalette) = PaletteEntries
        /\ \A k \in 1 .. PaletteEntries :
             out.writePalette[k] = <<k - 1, twin.v.palette[k]>>

---------------------------------------------------------------------------
\* LCDSTAT is pending in IF
StatPending(r) == BitIsSet(r.REG_IF, GB_IRQ_LCDSTAT)

\* ly has not yet been 5 since reset
BeforeLine5(v) == v.frameCounter = 0 /\ v.ly < 5

\* LYC = 5, only the LYC source enabled, the LCD on
LycArmed(v, r) == r.REG_LYC = 5 /\ v.stat \div 8 = 8 /\ GBRegisterLCDCIsEnable(r.REG_LCDC)

---------------------------------------------------------------------------
\* The step was a call of GBVideoProcessEvents that took the core into
\* mode 2 from mode `from`
IntoMode2(from) ==
    /\ lastOp' = "GBVideoProcessEvents"
    /\ out'.modeStep = from
    /\ video.mode = from
    /\ video'.mode = 2

\* C16 as stated: every step into mode 2, from mode 0 on a visible line
\* and from mode 1 at the wrap, raises LCDSTAT whenever the OAM source is
\* enabled in STAT, whatever the other enable bits.
C16_OamIrqOriginal ==
    [][((IntoMode2(0) \/ IntoMode2(1)) /\ GBRegisterSTATIsOAMIRQ(video'.stat)) =>
          GB_IRQ_LCDSTAT \in out'.irq]_vars

\* C16: the step into mode 2 from mode 1, at the wrap to line 0, raises
\* LCDSTAT exactly when the OAM source is enabled; the step into mode 2
\* from mode 0 raises it when the OAM source is enabled and the HBlank
\* source is not, and otherwise only for an enabled LYC coincidence.
C16_OamIrq ==
    [][/\ IntoMode2(1) =>
            /\ video'.ly = 0
            /\ (GB_IRQ_LCDSTAT \in out'.irq) = GBRegisterSTATIsOAMIRQ(video'.stat)
       /\ IntoMode2(0) =>
            /\ video'.ly \in 1 .. GB_VIDEO_VERTICAL_PIXELS - 1
            /\ (GB_IRQ_LCDSTAT \in out'.irq) =
                  (\/ /\ GBRegisterSTATIsOAMIRQ(video'.stat)
                      /\ ~GBRegisterSTATIsHblankIRQ(video'.stat)
                   \/ /\ GBRegisterSTATIsLYCIRQ(video'.stat)
                      /\ io'.REG_LYC = video'.ly)]_vars

\* a visible line has started with only the OAM source enabled, and
\* LCDSTAT was raised
C16_Witness ==
    /\ lastOp = "GBVideoProcessEvents"
    /\ out.modeStep = 0
    /\ video.mode = 2
    /\ video.stat \div 8 = 4
    /\ out.irq = {GB_IRQ_LCDSTAT}

\* C17: VBlank is raised by exactly the GBVideoProcessEvents steps that
\* take mode 0 to mode 1, which are the steps that take ly from 143 to
\* 144, whatever STAT holds, and by no other step; that step also raises
\* LCDSTAT if the VBlank or the OAM source is enabled in STAT.  So VBlank
\* is raised once in each pass of ly over the lines.
C17_VBlankIrq ==
    [][/\ (GB_IRQ_VBLANK \in out'.irq) =
              (/\ lastOp' = "GBVideoProcessEvents"
               /\ video.mode = 0
               /\ video'.mode = 1)
       /\ (GB_IRQ_VBLANK \in out'.irq) =
              (/\ lastOp' = "GBVideoProcessEvents"
               /\ video.ly = GB_VIDEO_VERTICAL_PIXELS - 1
               /\ video'.ly = GB_VIDEO_VERTICAL_PIXELS)
       /\ (/\ GB_IRQ_VBLANK \in out'.irq
           /\ \/ GBRegisterSTATIsVblankIRQ(video'.stat)
              \/ GBRegisterSTATIsOAMIRQ(video'.stat)) =>
              GB_IRQ_LCDSTAT \in out'.irq]_vars

\* VBlank has started with only the OAM source enabled: both interrupts
\* were raised
C17_Witness ==
    /\ lastOp = "GBVideoProcessEvents"
    /\ out.modeStep = 0
    /\ video.mode = 1
    /\ video.ly = GB_VIDEO_VERTICAL_PIXELS
    /\ video.stat \div 8 = 4
    /\ out.irq = {GB_IRQ_VBLANK, GB_IRQ_LCDSTAT}

---------------------------------------------------------------------------
\* C15: every call of GBVideoProcessEvents returns a value above 0, and
\* INT_MAX when neither a mode change nor a frame tick is scheduled; and a
\* driver that keeps calling at the returned deadline, with the LCD on,
\* reaches VBlank and then the frame tick.
C15_Deadline ==
    /\ [](IsAdvance =>
            /\ out.ret > 0
            /\ out.ret = video.nextEvent
            /\ (video.nextMode = INT_MAX /\ video.nextFrame = INT_MAX) =>
                   out.ret = INT_MAX)
    /\ (LcdEnabled /\ video.frameCounter = 0) ~> (video.mode = 1)
    /\ (LcdEnabled /\ video.frameCounter = 0) ~> (video.frameCounter > 0)

\* the first frame tick has run, at a deadline the core returned
C15_Witness ==
    /\ IsAdvance
    /\ LcdEnabled
    /\ out.gbFrameEnded
    /\ video.frameCounter = 1
    /\ out.ret \in 1 .. GB_VIDEO_TOTAL_LENGTH

\* C18: the frame tick (GBFrameEnded, the reload of nextFrame, the step of
\* frameskipCounter and of frameCounter) runs only when the CPU is in its
\* fetch state.  When the tick is due in another state e, none of that
\* happens, nextFrame becomes 4 - ((e + 1) & 3), which lies in 1..4, and
\* nextEvent is at most nextFrame when the call returns.
C18_FetchOnly ==
    [][lastOp' = "GBVideoProcessEvents" =>
        /\ out'.gbFrameEnded =>
              /\ out'.executionState = LR35902_CORE_FETCH
              /\ video'.nextFrame = GB_VIDEO_TOTAL_LENGTH
              /\ video'.frameCounter = video.frameCounter + 1
              /\ video'.frameskipCounter =
                    (IF video.frameskipCounter - 1 < 0
                     THEN video.frameskip
                     ELSE video.frameskipCounter - 1)
        /\ ~out'.gbFrameEnded =>
              /\ video'.frameCounter = video.frameCounter
              /\ video'.frameskipCounter = video.frameskipCounter
              /\ ~out'.postFrame
              /\ ~out'.frameStarted
        /\ (out'.executionState \notin {-1, LR35902_CORE_FETCH}) =>
              /\ ~out'.gbFrameEnded
              /\ out'.deferred
              /\ video'.nextFrame = 4 - ((out'.executionState + 1) % 4)
              /\ video'.nextFrame \in 1 .. 4
              /\ video'.nextEvent <= video'.nextFrame
              /\ out'.ret = video'.nextEvent]_vars

\* the tick was due while the CPU was in state 7 and is put off by 4 cycles
C18_Witness ==
    /\ IsAdvance
    /\ out.deferred
    /\ out.executionState = 7
    /\ ~out.gbFrameEnded
    /\ video.nextFrame = 4
    /\ video.nextEvent = 4

---------------------------------------------------------------------------
\* C19: on every visible line but the first after the LCD is switched on,
\* with SCX left alone and every call made at its deadline, the reloads of
\* nextMode for mode 2, mode 3 and mode 0 add up to
\* GB_VIDEO_HORIZONTAL_LENGTH, for every objMax in 0..10 and every SCX & 7,
\* and each of the three is above 0.
C19_LineLength ==
    (IsAdvance /\ out.modeStep = 3 /\ video.ly > 0) =>
        /\ Len(clock.reloads) = 3
        /\ clock.reloads[1] + clock.reloads[2] + clock.reloads[3]
               = GB_VIDEO_HORIZONTAL_LENGTH
        /\ \A i \in 1 .. 3 : clock.reloads[i] > 0
        /\ clock.reloads[3] = video.nextMode
        /\ video.objMax \in 0 .. MaxObjPerLine

\* a line with ten sprites and a fine scroll of 7 has reached mode 0
C19_Witness ==
    /\ IsAdvance
    /\ out.modeStep = 3
    /\ video.ly > 0
    /\ video.objMax = MaxObjPerLine
    /\ io.REG_SCX = 7
    /\ clock.reloads = <<87, 275, 94>>

---------------------------------------------------------------------------
\* The ranges start at dot 0, end at dot 160, each starts where the one
\* before ended, and none runs backwards
Covers(ranges) ==
    /\ Len(ranges) > 0
    /\ ranges[1][1] = 0
    /\ ranges[Len(ranges)][2] = GB_VIDEO_HORIZONTAL_PIXELS
    /\ \A i \in 1 .. Len(ranges) : ranges[i][1] <= ranges[i][2]
    /\ \A i \in 1 .. Len(ranges) - 1 : ranges[i][2] = ranges[i + 1][1]

\* C20: after a call of GBVideoProcessDots in mode 3 with dotCounter >= 0,
\* x is in 0..160, and dotCounter is INT_MIN exactly when x = 160; every
\* drawRange has start <= end; and when finishScanline is called on a line
\* that is not skipped, the drawRange calls of the line cover the dots
\* 0..160 one after the other, with no gap and no overlap.
C20_DotClock ==
    /\ out.drawDue =>
          /\ video.x \in 0 .. GB_VIDEO_HORIZONTAL_PIXELS
          /\ (video.dotCounter = INT_MIN) = (video.x = GB_VIDEO_HORIZONTAL_PIXELS)
    /\ out.drawRange # <<>> => out.drawRange[1] <= out.drawRange[2]
    /\ (lastOp = "GBVideoProcessEvents" /\ out.finishScanline # -1) =>
          Covers(clock.line)

---------------------------------------------------------------------------
\* What the off -> on edge leaves, but for eventDiff
EnableEdgeLeaves(v0, r0, v1, r1, o1) ==
    /\ v1.mode = 2
    /\ v1.nextMode = GB_VIDEO_MODE_2_LENGTH - 5
    /\ v1.nextEvent = v1.nextMode
    /\ v1.ly = 0
    /\ r1.REG_LY = 0
    /\ v1.stat % 4 = 2
    /\ r1.REG_STAT = v1.stat
    /\ GBRegisterSTATIsLYC(v1.stat) = (r0.REG_LYC = 0)
    /\ (GB_IRQ_LCDSTAT \in o1.irq) =
          (GBRegisterSTATIsLYCIRQ(v0.stat) /\ r0.REG_LYC = 0)

\* C21: a GBVideoWriteLCDC with the stored LCDC bit 7 clear and the new
\* value's bit 7 set leaves mode = 2, nextMode = nextEvent = MODE2 - 5,
\* ly = IO[LY] = 0, the STAT mode bits 2, the STAT LYC bit set exactly when
\* IO[LYC] = 0, LCDSTAT raised exactly when the LYC interrupt is enabled and
\* IO[LYC] = 0, and eventDiff = -(cpu.cycles >> doubleSpeed); a write that
\* changes bit 7 in neither direction leaves every video field unchanged.
C21_EnableEdge ==
    [][lastOp' = "GBVideoWriteLCDC" =>
         /\ (~GBRegisterLCDCIsEnable(io.REG_LCDC)
               /\ GBRegisterLCDCIsEnable(io'.REG_LCDC)) =>
                /\ EnableEdgeLeaves(video, io, video', io', out')
                /\ video'.eventDiff = -ShiftRight(clock'.cpu, gb.doubleSpeed)
         /\ (GBRegisterLCDCIsEnable(io.REG_LCDC)
               = GBRegisterLCDCIsEnable(io'.REG_LCDC)) => video' = video]_vars

===========================================================================
